---------------------------- MODULE Spec2Model ----------------------------
(***************************************************************************)
(* Asynchronous delivery pipeline of EaseEmailNotification:                *)
(*   intake     app/services/email_sender_service.py (validate_and_queue)  *)
(*   worker     app/worker/tasks.py                  (send_email_task)     *)
(*   sender     app/worker/smtp_sender.py            (send_via_smtp)       *)
(*   dispatcher app/worker/webhook_dispatcher.py                           *)
(*   broker     app/worker/celery_config.py (acks late, requeue on loss)   *)
(*                                                                         *)
(* Time is counted in seconds and read at multiples of the task time       *)
(* limit.  A nullable column is a set: {} is NULL and {v} holds v.  The    *)
(* committed database is `jobs`, `logs`, `deliveries`; what a worker's     *)
(* SQLAlchemy session holds and has not committed is `sess`.  The row lock *)
(* of SELECT ... FOR UPDATE SKIP LOCKED is `lockedBy`; a commit or the end *)
(* of the session releases it.                                             *)
(***************************************************************************)
EXTENDS Integers, FiniteSets, Sequences, TLC

\* ------------------------------------------------------------------ bounds
NumWorkers == 2
\* clock ticks the model follows
MaxTime == 1
\* messages the broker puts back (worker lost) or delivers twice
MaxRedeliveries == 1
\* executions per job that pass the gates of send_email_task
MaxRuns == 5
\* webhook messages the broker puts back or delivers twice
MaxWebhookRedeliveries == 2

\* ------------------------------------------------------- program constants
\* @celery_app.task(max_retries=3)
TaskMaxRetries == 3
\* EmailJob.max_retries = Column(Integer, default=3)
JobMaxRetries == 3
\* task_time_limit=120: the pool kills a task's process after 120 seconds
TaskTimeLimit == 120
\* timedelta(minutes=2) of the stale-processing gate, in seconds
StaleLimit == 2 * 60
\* The clock advances in steps of the task time limit: a task runs within
\* one step
Unit == TaskTimeLimit

NULL == {}

\* One job is followed from intake to its end; rows of different jobs share
\* no state
JobIds == {1}
Workers == 1..NumWorkers
Tasks == [job : JobIds, retries : 0..TaskMaxRetries]

VARIABLES
    now,            \* wall clock, seconds
    app,            \* the Application row (webhook settings)
    jobs,           \* committed email_jobs rows
    logs,           \* committed email_logs rows, in insertion order
    deliveries,     \* committed webhook_deliveries rows
    nextDeliveryId, \* ids handed out by flush()
    intake,         \* position of the intake request of each job
    reply,          \* HTTP status the intake request was answered with
    emailq,         \* queue email_delivery: number of messages per task
    whq,            \* queue webhook_delivery: delivery ids
    pc,             \* position of each worker process in send_email_task
    task,           \* the un-acked message a worker holds
    sess,           \* the worker's session: job object, final_status, delivery
    lockedBy,       \* holder of the row lock of each job
    runs,           \* executions of the job's task that passed the gates
    smtpAttempts,   \* SMTP connections opened per job (the relay's view)
    smtpAccepted,   \* messages the relay accepted per job
    everTerminal,   \* a terminal status of the job was committed at some time
    skips,          \* why executions of the job's task returned early
    redeliveries,   \* messages the broker put back or delivered again
    whpc,           \* position of each worker process in deliver_webhook_task
    whtask,         \* the un-acked webhook message a worker holds (delivery id)
    whsess,         \* the delivery object loaded by the worker's session
    posts,          \* the last two HTTP POST requests sent to subscribers
    moved,          \* a POST was sent after the application's URL had changed
    whskipped       \* deliveries an execution found delivered and left alone

vars == <<now, app, jobs, logs, deliveries, nextDeliveryId, intake, reply,
          emailq, whq, pc, task, sess, lockedBy, runs, smtpAttempts,
          smtpAccepted, everTerminal, skips, redeliveries,
          whpc, whtask, whsess, posts, moved, whskipped>>

\* The state of the webhook workers
whvars == <<whpc, whtask, whsess, posts, moved, whskipped>>

\* ------------------------------------------------------------------- rows
\* EmailJob as inserted by validate_and_queue: column defaults.  Columns
\* that no step of the pipeline reads after intake (addresses, subject,
\* body, next_retry_at, created_at, updated_at) are not followed
NewJob ==
    [exists |-> FALSE, status |-> "queued", sent_at |-> NULL,
     processing_started_at |-> NULL, error_message |-> NULL,
     error_category |-> NULL, retry_count |-> 0,
     webhook_requested |-> FALSE]

\* Application rows the configuration store can hold
AppConfigs ==
    { [webhook_enabled |-> TRUE,  webhook_url |-> {"U1"}, webhook_api_key |-> {"K1"},
       webhook_events |-> {"email.sent", "email.failed"}],
      [webhook_enabled |-> TRUE,  webhook_url |-> {"U1"}, webhook_api_key |-> {"K1"},
       webhook_events |-> {"email.sent"}],
      [webhook_enabled |-> FALSE, webhook_url |-> {"U1"}, webhook_api_key |-> {"K1"},
       webhook_events |-> {"email.sent", "email.failed"}] }

NoTask == [job |-> 0, retries |-> 0]

NoSess == [job |-> NewJob, final_status |-> NULL, delivery |-> NULL]

Terminal == {"sent", "failed"}

Init ==
    /\ now = 0
    /\ app \in AppConfigs
    /\ jobs = [j \in JobIds |-> NewJob]
    /\ logs = << >>
    /\ deliveries = {}
    /\ nextDeliveryId = 1
    /\ intake = [j \in JobIds |-> "new"]
    /\ reply = [j \in JobIds |-> 0]
    /\ emailq = [t \in Tasks |-> 0]
    /\ whq = {}
    /\ pc = [w \in Workers |-> "idle"]
    /\ task = [w \in Workers |-> NoTask]
    /\ sess = [w \in Workers |-> NoSess]
    /\ lockedBy = [j \in JobIds |-> NULL]
    /\ runs = [j \in JobIds |-> 0]
    /\ smtpAttempts = [j \in JobIds |-> 0]
    /\ smtpAccepted = [j \in JobIds |-> 0]
    /\ everTerminal = [j \in JobIds |-> FALSE]
    /\ skips = [j \in JobIds |-> {}]
    /\ redeliveries = 0
    /\ whpc = [w \in Workers |-> "idle"]
    /\ whtask = [w \in Workers |-> 0]
    /\ whsess = [w \in Workers |-> NULL]
    /\ posts = << >>
    /\ moved = FALSE
    /\ whskipped = {}

\* ----------------------------------------------------------------- intake
\* What the lookups of validate_and_queue find for a request: the
\* application of the API key, the service of that name (the query asks for
\* status active), the active ServiceConfiguration, its SMTPConfiguration,
\* the template, and whether Jinja renders it with the variables
Requests ==
    [api_key : {"valid", "unknown"},
     service : {"active", "inactive", "missing"},
     config : {"active", "inactive", "missing"},
     smtp : BOOLEAN, template : BOOLEAN, renders : BOOLEAN]

\* Steps 1-5 without the template lookup's check
Validate_NoTemplateCheck(req) ==
    IF req.api_key # "valid" THEN 401
    ELSE IF req.service # "active" THEN 400
    ELSE IF req.config # "active" THEN 400
    ELSE IF ~req.smtp THEN 400
    ELSE IF ~req.renders THEN 400
    ELSE 0

\* Steps 1-5 of validate_and_queue, in their order: the status of the
\* HTTPException raised for the request, 0 when none is raised
Validate(req) ==
    IF req.api_key # "valid" THEN 401
    ELSE IF req.service # "active" THEN 400
    ELSE IF req.config # "active" THEN 400
    ELSE IF ~req.smtp THEN 400
    ELSE IF ~req.template THEN 404
    ELSE IF ~req.renders THEN 400
    ELSE 0

\* validate_and_queue, steps 1-5: a lookup or the rendering fails, 4xx
IntakeReject(j, req) ==
    /\ intake[j] = "new"
    /\ Validate(req) # 0
    /\ intake' = [intake EXCEPT ![j] = "rejected"]
    /\ reply' = [reply EXCEPT ![j] = Validate(req)]
    /\ UNCHANGED <<whvars, now, app, jobs, logs, deliveries, nextDeliveryId, emailq,
                   whq, pc, task, sess, lockedBy, runs, smtpAttempts,
                   smtpAccepted, everTerminal, skips, redeliveries>>

\* db.add(job); await db.flush(): the row is inserted, not yet committed
IntakeFlush(j, req) ==
    /\ intake[j] = "new"
    /\ Validate(req) = 0
    /\ intake' = [intake EXCEPT ![j] = "flushed"]
    /\ UNCHANGED reply
    /\ UNCHANGED <<whvars, now, app, jobs, logs, deliveries, nextDeliveryId, emailq,
                   whq, pc, task, sess, lockedBy, runs, smtpAttempts,
                   smtpAccepted, everTerminal, skips, redeliveries>>

\* send_email_task.delay(job_id) succeeds: the message is in the queue
IntakeEnqueue(j) ==
    /\ intake[j] = "flushed"
    /\ intake' = [intake EXCEPT ![j] = "enqueued"]
    /\ UNCHANGED reply
    /\ emailq' = [emailq EXCEPT ![[job |-> j, retries |-> 0]] = @ + 1]
    /\ UNCHANGED <<whvars, now, app, jobs, logs, deliveries, nextDeliveryId,
                   whq, pc, task, sess, lockedBy, runs, smtpAttempts,
                   smtpAccepted, everTerminal, skips, redeliveries>>

\* The except clause without the assignment of status
IntakeEnqueueFail_StaysQueued(j) ==
    /\ intake[j] = "flushed"
    /\ intake' = [intake EXCEPT ![j] = "error"]
    /\ reply' = [reply EXCEPT ![j] = 500]
    /\ jobs' = [jobs EXCEPT ![j] = [NewJob EXCEPT !.exists = TRUE,
                                       !.error_message = {"Failed to enqueue"}]]
    /\ everTerminal' = [everTerminal EXCEPT ![j] = TRUE]
    /\ UNCHANGED <<whvars, now, app, logs, deliveries, nextDeliveryId, emailq,
                   whq, pc, task, sess, lockedBy, runs, smtpAttempts,
                   smtpAccepted, skips, redeliveries>>

\* delay() raises: status=failed, error_message, commit, 500
IntakeEnqueueFail(j) ==
    /\ intake[j] = "flushed"
    /\ intake' = [intake EXCEPT ![j] = "error"]
    /\ reply' = [reply EXCEPT ![j] = 500]
    /\ jobs' = [jobs EXCEPT ![j] = [NewJob EXCEPT !.exists = TRUE,
                                       !.status = "failed",
                                       !.error_message = {"Failed to enqueue"}]]
    /\ everTerminal' = [everTerminal EXCEPT ![j] = TRUE]
    /\ UNCHANGED <<whvars, now, app, logs, deliveries, nextDeliveryId, emailq,
                   whq, pc, task, sess, lockedBy, runs, smtpAttempts,
                   smtpAccepted, skips, redeliveries>>

\* await db.commit(); return 202
IntakeCommit(j) ==
    /\ intake[j] = "enqueued"
    /\ intake' = [intake EXCEPT ![j] = "accepted"]
    /\ reply' = [reply EXCEPT ![j] = 202]
    /\ jobs' = [jobs EXCEPT ![j] = [NewJob EXCEPT !.exists = TRUE]]
    /\ UNCHANGED <<whvars, now, app, logs, deliveries, nextDeliveryId, emailq,
                   whq, pc, task, sess, lockedBy, runs, smtpAttempts,
                   smtpAccepted, everTerminal, skips, redeliveries>>

\* ----------------------------------------------------------------- broker
\* worker_prefetch_multiplier=1: a pool process runs one task at a time
Free(w) == pc[w] = "idle" /\ whpc[w] = "idle"

\* The session is closed (rollback, locks released) and the worker is free
Release(w) ==
    /\ pc' = [pc EXCEPT ![w] = "idle"]
    /\ task' = [task EXCEPT ![w] = NoTask]
    /\ sess' = [sess EXCEPT ![w] = NoSess]
    /\ lockedBy' = [j \in JobIds |-> IF lockedBy[j] = {w} THEN NULL ELSE lockedBy[j]]

\* ----------------------------------------------------------------- worker
\* The gates after a plain SELECT, which returns a locked row too
SelectOutcome_IgnoresLock(row, locked, t) ==
    IF ~row.exists THEN "none"
    ELSE IF row.sent_at # NULL THEN "sent"
    ELSE IF /\ row.status = "processing"
            /\ row.processing_started_at # NULL
            /\ \E p \in row.processing_started_at : t - p < StaleLimit
         THEN "stale"
    ELSE "go"

\* The gates with the idempotency check left out
SelectOutcome_NoSentGate(row, locked, t) ==
    IF ~row.exists \/ locked THEN "none"
    ELSE IF /\ row.status = "processing"
            /\ row.processing_started_at # NULL
            /\ \E p \in row.processing_started_at : t - p < StaleLimit
         THEN "stale"
    ELSE "go"

\* The gates with the stale-processing check left out
SelectOutcome_NoStaleGate(row, locked, t) ==
    IF ~row.exists \/ locked THEN "none"
    ELSE IF row.sent_at # NULL THEN "sent"
    ELSE "go"

\* Lines 65-87 of send_email_task: what the execution does with the row
\*   "none"  the select returned no row (absent, or locked and skipped)
\*   "sent"  idempotency gate: sent_at is set
\*   "stale" the job is in processing for less than 2 minutes
\*   "go"    the row is locked and the job is taken
SelectOutcome(row, locked, t) ==
    IF ~row.exists \/ locked THEN "none"
    ELSE IF row.sent_at # NULL THEN "sent"
    ELSE IF /\ row.status = "processing"
            /\ row.processing_started_at # NULL
            /\ \E p \in row.processing_started_at : t - p < StaleLimit
         THEN "stale"
    ELSE "go"

\* The warning or info line logged by an early return; the code logs one
\* line for an absent and for a locked row, told apart here
SkipReason(row, o) ==
    IF o = "none" THEN (IF row.exists THEN "locked" ELSE "absent") ELSE o

\* The broker hands message t of email_delivery to a free worker (prefetch
\* 1; free workers are interchangeable, the first one takes it) and the
\* task runs lines 59-87: SELECT ... FOR UPDATE SKIP LOCKED, idempotency
\* gate, stale gate.  An early return acknowledges the message; otherwise
\* it stays un-acked (task_acks_late) while the task goes on.
\* Delivery is at least once: with `again` the broker will deliver the same
\* message a second time (visibility timeout, lost acknowledgement, the
\* task called again by hand), so a copy stays in the queue.
StartTask(w, t, again) ==
    LET j == t.job
        o == SelectOutcome(jobs[j], lockedBy[j] # NULL, now)
    IN  /\ Free(w)
        /\ \A v \in Workers : v < w => ~Free(v)
        /\ emailq[t] > 0
        /\ IF again
           THEN /\ redeliveries < MaxRedeliveries
                /\ redeliveries' = redeliveries + 1
                /\ UNCHANGED emailq
           ELSE /\ emailq' = [emailq EXCEPT ![t] = @ - 1]
                /\ UNCHANGED redeliveries
        /\ IF o = "go"
           THEN /\ runs[j] < MaxRuns
                /\ runs' = [runs EXCEPT ![j] = @ + 1]
                /\ pc' = [pc EXCEPT ![w] = "mark"]
                /\ task' = [task EXCEPT ![w] = t]
                /\ lockedBy' = [lockedBy EXCEPT ![j] = {w}]
                /\ sess' = [sess EXCEPT ![w].job = jobs[j]]
                /\ UNCHANGED skips
           ELSE /\ skips' = [skips EXCEPT ![j] = @ \cup {SkipReason(jobs[j], o)}]
                /\ UNCHANGED <<pc, task, lockedBy, sess, runs>>
        /\ UNCHANGED <<whvars, now, app, jobs, logs, deliveries, nextDeliveryId,
                       intake, reply, whq, smtpAttempts, smtpAccepted, everTerminal>>

\* Line 84: elapsed = datetime.utcnow() - job.processing_started_at.
\* utcnow() has no time zone; processing_started_at is a column
\* DateTime(timezone=True), which the PostgreSQL driver loads with its time
\* zone, and Python then raises TypeError at the subtraction.  What the
\* driver hands back decides: the model follows the comparison as written
\* (StartTask) and the exception (this step).  The exception leaves the task
\* before any change, the session is closed and the failed task's message
\* is acknowledged.  Below two minutes that is what the return of line 87
\* does as well, so the step is followed where the two differ: for a job
\* in processing for two minutes or more
StaleGateRaise(w, t, again) ==
    LET j == t.job
    IN  /\ Free(w)
        /\ \A v \in Workers : v < w => ~Free(v)
        /\ emailq[t] > 0
        /\ jobs[j].exists
        /\ lockedBy[j] = NULL
        /\ jobs[j].sent_at = NULL
        /\ jobs[j].status = "processing"
        /\ \E p \in jobs[j].processing_started_at : now - p >= StaleLimit
        /\ IF again
           THEN /\ redeliveries < MaxRedeliveries
                /\ redeliveries' = redeliveries + 1
                /\ UNCHANGED emailq
           ELSE /\ emailq' = [emailq EXCEPT ![t] = @ - 1]
                /\ UNCHANGED redeliveries
        /\ UNCHANGED <<whvars, now, app, jobs, logs, deliveries, nextDeliveryId,
                       intake, reply, whq, pc, task, sess, lockedBy, runs,
                       smtpAttempts, smtpAccepted, everTerminal, skips>>

\* 3. status = "processing", processing_started_at = utcnow(), commit
MarkProcessing(w) ==
    LET j == task[w].job
    IN  /\ pc[w] = "mark"
        /\ jobs' = [jobs EXCEPT ![j].status = "processing",
                                ![j].processing_started_at = {now}]
        /\ lockedBy' = [lockedBy EXCEPT ![j] = NULL]
        /\ pc' = [pc EXCEPT ![w] = "smtp"]
        /\ UNCHANGED <<whvars, now, app, logs, deliveries, nextDeliveryId, intake, reply,
                       emailq, whq, task, sess, runs, smtpAttempts,
                       smtpAccepted, everTerminal, skips, redeliveries>>

\* What send_via_smtp does for the job:
\*   "ok"        the relay accepted the message
\*   "permanent" PermanentFailure raised by the relay's answer
\*               (a missing SMTP configuration raises it too)
\*   "temporary" TemporaryFailure
\*   "system"    an exception that is neither (a failed lookup)
SmtpOutcomes == {"ok", "permanent", "temporary", "system"}

Connects(o) == o \in {"ok", "permanent", "temporary"}

\* PERMANENT_SMTP_CODES and TEMPORARY_SMTP_CODES of exceptions.py
PERMANENT_SMTP_CODES == {550, 551, 552, 553, 554}

TEMPORARY_SMTP_CODES == {421, 450, 451, 452}

\* A reply code in neither table
OtherCode == 500

\* What send_via_smtp meets: the relay accepts, a lookup or the decryption
\* fails, the relay refuses, answers with a reply code, the network fails,
\* or something unforeseen is raised inside or outside the SMTP block
SmtpEvents ==
    [kind : {"accepted", "no_config", "decrypt_failed", "recipients_refused",
             "auth_failed", "timeout", "connection", "socket",
             "unexpected_in_smtp", "unexpected_outside"}, code : {0}]
    \cup [kind : {"reply"},
          code : PERMANENT_SMTP_CODES \cup TEMPORARY_SMTP_CODES \cup {OtherCode}]

\* The clauses with a reply code of neither table taken as permanent
Classify_OtherPermanent(e) ==
    IF e.kind = "accepted" THEN "ok"
    ELSE IF e.kind \in {"no_config", "decrypt_failed"} THEN "permanent"
    ELSE IF e.kind \in {"recipients_refused", "auth_failed"} THEN "permanent"
    ELSE IF e.kind = "reply"
         THEN IF e.code \in TEMPORARY_SMTP_CODES THEN "temporary" ELSE "permanent"
    ELSE IF e.kind \in {"timeout", "connection", "socket"} THEN "temporary"
    ELSE IF e.kind = "unexpected_in_smtp" THEN "temporary"
    ELSE "system"

\* The except clauses of send_via_smtp, in their order: the outcome the
\* task sees for event e
Classify(e) ==
    IF e.kind = "accepted" THEN "ok"
    ELSE IF e.kind \in {"no_config", "decrypt_failed"} THEN "permanent"
    ELSE IF e.kind \in {"recipients_refused", "auth_failed"} THEN "permanent"
    ELSE IF e.kind = "reply"
         THEN IF e.code \in PERMANENT_SMTP_CODES THEN "permanent"
              ELSE IF e.code \in TEMPORARY_SMTP_CODES THEN "temporary"
              ELSE "temporary"
    ELSE IF e.kind \in {"timeout", "connection", "socket"} THEN "temporary"
    ELSE IF e.kind = "unexpected_in_smtp" THEN "temporary"
    ELSE "system"

\* The except clauses with a permanent failure counted as a retry
HandleOutcome_PermanentCounts(row, o, retries, t) ==
    CASE o = "ok" ->
           [row EXCEPT !.status = "sent", !.sent_at = {t}]
      [] o = "permanent" ->
           [row EXCEPT !.status = "failed",
                       !.error_message = {"permanent"},
                       !.error_category = {"permanent"},
                       !.retry_count = @ + 1]
      [] o = "temporary" /\ retries >= TaskMaxRetries ->
           [row EXCEPT !.status = "failed",
                       !.error_message = {"Max retries exceeded"},
                       !.error_category = {"temporary"}]
      [] o = "temporary" /\ retries < TaskMaxRetries ->
           [row EXCEPT !.status = "retry_pending",
                       !.error_message = {"temporary"},
                       !.retry_count = @ + 1]
      [] o = "system" ->
           [row EXCEPT !.status = "failed",
                       !.error_message = {"Unexpected error"},
                       !.error_category = {"system"}]

\* Lines 107-205: the job object after the try block, for outcome o of the
\* sender in a task that is Celery retry number `retries`, at time t
HandleOutcome(row, o, retries, t) ==
    CASE o = "ok" ->
           [row EXCEPT !.status = "sent", !.sent_at = {t}]
      [] o = "permanent" ->
           [row EXCEPT !.status = "failed",
                       !.error_message = {"permanent"},
                       !.error_category = {"permanent"}]
      [] o = "temporary" /\ retries >= TaskMaxRetries ->
           [row EXCEPT !.status = "failed",
                       !.error_message = {"Max retries exceeded"},
                       !.error_category = {"temporary"}]
      [] o = "temporary" /\ retries < TaskMaxRetries ->
           [row EXCEPT !.status = "retry_pending",
                       !.error_message = {"temporary"},
                       !.retry_count = @ + 1]
      [] o = "system" ->
           [row EXCEPT !.status = "failed",
                       !.error_message = {"Unexpected error"},
                       !.error_category = {"system"}]

\* final_status set on the retry path too
FinalStatus_RetryIsFinal(o, retries) ==
    IF o = "ok" THEN {"sent"} ELSE {"failed"}

\* final_status after the try block (None on the retry path)
FinalStatus(o, retries) ==
    CASE o = "ok" -> {"sent"}
      [] o = "temporary" /\ retries < TaskMaxRetries -> NULL
      [] OTHER -> {"failed"}

\* 4-5. send_via_smtp(job, db) and the except clauses; the job object,
\* expired by the commit, is reloaded from the committed row
SmtpSend(w, o) ==
    LET j == task[w].job
        r == task[w].retries
    IN  /\ pc[w] = "smtp"
        /\ smtpAttempts' = [smtpAttempts EXCEPT ![j] = IF Connects(o) THEN @ + 1 ELSE @]
        /\ smtpAccepted' = [smtpAccepted EXCEPT ![j] = IF o = "ok" THEN @ + 1 ELSE @]
        /\ sess' = [sess EXCEPT ![w].job = HandleOutcome(jobs[j], o, r, now),
                                ![w].final_status = FinalStatus(o, r)]
        /\ pc' = [pc EXCEPT ![w] = IF FinalStatus(o, r) = NULL
                                    THEN "retry_commit" ELSE "finalize"]
        /\ UNCHANGED <<whvars, now, app, jobs, logs, deliveries, nextDeliveryId,
                       intake, reply, emailq, whq, task, lockedBy, runs,
                       everTerminal, skips, redeliveries>>

\* The commit of the retry branch with retry_count left out of the UPDATE
CommitRetry_NoCount(w) ==
    LET j == task[w].job
        s == sess[w].job
    IN  /\ pc[w] = "retry_commit"
        /\ lockedBy[j] = NULL
        /\ jobs' = [jobs EXCEPT ![j].status = s.status,
                                ![j].error_message = s.error_message]
        /\ pc' = [pc EXCEPT ![w] = "retry"]
        /\ UNCHANGED <<whvars, now, app, logs, deliveries, nextDeliveryId, intake, reply,
                       emailq, whq, task, sess, lockedBy,
                       runs, smtpAttempts, smtpAccepted, everTerminal, skips, redeliveries>>

\* 5b. db.commit() of the retry branch: the UPDATE of the changed columns
CommitRetry(w) ==
    LET j == task[w].job
        s == sess[w].job
    IN  /\ pc[w] = "retry_commit"
        /\ lockedBy[j] = NULL
        /\ jobs' = [jobs EXCEPT ![j].status = s.status,
                                ![j].error_message = s.error_message,
                                ![j].retry_count = s.retry_count]
        /\ pc' = [pc EXCEPT ![w] = "retry"]
        /\ UNCHANGED <<whvars, now, app, logs, deliveries, nextDeliveryId, intake, reply,
                       emailq, whq, task, sess, lockedBy,
                       runs, smtpAttempts, smtpAccepted, everTerminal, skips, redeliveries>>

\* `raise`: autoretry_for publishes the task again with retries + 1
\* (retry_backoff=True counts in seconds, below the clock's resolution)
\* and the current message is acknowledged
RetryPublish(w) ==
    LET t == task[w]
    IN  /\ pc[w] = "retry"
        /\ emailq' = [emailq EXCEPT ![[job |-> t.job, retries |-> t.retries + 1]] = @ + 1]
        /\ Release(w)
        /\ UNCHANGED <<whvars, now, app, jobs, logs, deliveries, nextDeliveryId,
                       intake, reply, whq, runs, smtpAttempts, smtpAccepted, everTerminal,
                       skips, redeliveries>>

\* ------------------------------------------------------------- dispatcher
\* The event names the wrong way round
EventType_Flipped(final) == IF final = "sent" THEN "email.failed" ELSE "email.sent"

\* event_type = "email.sent" if final_status == "sent" else "email.failed"
EventType(final) == IF final = "sent" THEN "email.sent" ELSE "email.failed"

\* The early returns without the check of the URL
WebhookConfigured_IgnoresUrl(a, ev) ==
    /\ a.webhook_enabled
    /\ ev \in a.webhook_events

\* Lines 46-61 of queue_webhook_if_configured: the dispatcher goes on
WebhookConfigured(a, ev) ==
    /\ a.webhook_enabled
    /\ a.webhook_url # NULL
    /\ ev \in a.webhook_events

\* The row with the except clause of the enqueue left out
NewDelivery_AlwaysPending(id, j, a, final, enqueued) ==
    [id |-> id, email_job_id |-> j,
     webhook_url |-> a.webhook_url,
     event_type |-> EventType(final),
     payload |-> [event |-> EventType(final), job_id |-> j, status |-> final],
     status |-> "pending",
     retry_count |-> 0,
     last_error |-> NULL,
     next_retry_at |-> NULL, last_response_code |-> NULL,
     delivered_at |-> NULL]

\* The WebhookDelivery row built for job j: URL snapshot, payload (the
\* fields that name the event), and status "failed" with last_error when
\* the enqueue raised
NewDelivery(id, j, a, final, enqueued) ==
    [id |-> id, email_job_id |-> j,
     webhook_url |-> a.webhook_url,
     event_type |-> EventType(final),
     payload |-> [event |-> EventType(final), job_id |-> j, status |-> final],
     status |-> IF enqueued THEN "pending" ELSE "failed",
     retry_count |-> 0,
     last_error |-> IF enqueued THEN NULL ELSE {"Failed to queue"},
     next_retry_at |-> NULL, last_response_code |-> NULL,
     delivered_at |-> NULL]

\* 6-7. EmailLog added to the session; queue_webhook_if_configured for an
\* application that subscribed to the event: the flush sends the job's
\* UPDATE (taking the row lock) and the INSERT of the delivery, then
\* deliver_webhook_task.delay succeeds or raises
Dispatch(w, enqueued) ==
    LET j == task[w].job
        f == CHOOSE x \in sess[w].final_status : TRUE
        d == NewDelivery(nextDeliveryId, j, app, f, enqueued)
    IN  /\ pc[w] = "finalize"
        /\ WebhookConfigured(app, EventType(f))
        /\ lockedBy[j] = NULL
        /\ lockedBy' = [lockedBy EXCEPT ![j] = {w}]
        /\ nextDeliveryId' = nextDeliveryId + 1
        /\ sess' = [sess EXCEPT ![w].delivery = {d},
                                ![w].job.webhook_requested = TRUE]
        /\ whq' = IF enqueued THEN whq \cup {d.id} ELSE whq
        /\ pc' = [pc EXCEPT ![w] = "commit"]
        /\ UNCHANGED <<whvars, now, app, jobs, logs, deliveries, intake, reply, emailq,
                       task, runs, smtpAttempts, smtpAccepted,
                       everTerminal, skips, redeliveries>>

\* queue_webhook_if_configured raises outside its try block (a lookup,
\* the payload's validation, the flush): the exception leaves the task at
\* line 222, the session is rolled back, the task has failed and its
\* message is acknowledged
DispatchRaise(w) ==
    /\ pc[w] = "finalize"
    /\ Release(w)
    /\ UNCHANGED <<whvars, now, app, jobs, logs, deliveries, nextDeliveryId, intake, reply,
                   emailq, whq, runs, smtpAttempts, smtpAccepted, everTerminal,
                   skips, redeliveries>>

\* The dispatcher returned at one of its early returns (lines 46-61)
DispatcherReturned(w) ==
    /\ pc[w] = "finalize"
    /\ \A f \in sess[w].final_status : ~WebhookConfigured(app, EventType(f))

\* EmailLog(job_id, status=job.status, 200 if sent else 500, message)
NewLog(j, row, final) ==
    [job_id |-> j, status |-> row.status,
     response_code |-> IF final = "sent" THEN 200 ELSE 500,
     response_message |-> IF final = "sent" THEN {"OK"} ELSE row.error_message]

\* The UPDATE of the terminal paths without the column sent_at
WriteFinal_NoSentAt(row, s, final, requested) ==
    LET r1 == IF final = "sent"
              THEN [row EXCEPT !.status = s.status]
              ELSE [row EXCEPT !.status = s.status,
                               !.error_message = s.error_message,
                               !.error_category = s.error_category]
    IN  IF requested THEN [r1 EXCEPT !.webhook_requested = TRUE] ELSE r1

\* The columns the session changed on the terminal paths, written to the
\* committed row by the UPDATE
WriteFinal(row, s, final, requested) ==
    LET r1 == IF final = "sent"
              THEN [row EXCEPT !.status = s.status, !.sent_at = s.sent_at]
              ELSE [row EXCEPT !.status = s.status,
                               !.error_message = s.error_message,
                               !.error_category = s.error_category]
    IN  IF requested THEN [r1 EXCEPT !.webhook_requested = TRUE] ELSE r1

\* 8. db.commit(): job, log and delivery become visible together
FinalCommit(w) ==
    LET j == task[w].job
        f == CHOOSE x \in sess[w].final_status : TRUE
    IN  /\ pc[w] = "commit" \/ DispatcherReturned(w)
        /\ lockedBy[j] \in {NULL, {w}}
        /\ jobs' = [jobs EXCEPT ![j] = WriteFinal(@, sess[w].job, f, sess[w].delivery # NULL)]
        /\ logs' = Append(logs, NewLog(j, sess[w].job, f))
        /\ deliveries' = deliveries \cup sess[w].delivery
        /\ lockedBy' = [lockedBy EXCEPT ![j] = NULL]
        /\ everTerminal' = [everTerminal EXCEPT ![j] = TRUE]
        /\ pc' = [pc EXCEPT ![w] = "ack"]
        /\ UNCHANGED <<whvars, now, app, nextDeliveryId, intake, reply, emailq, whq, task,
                       sess, runs, smtpAttempts, smtpAccepted, skips, redeliveries>>

\* The task returned: the message is acknowledged
Ack(w) ==
    /\ pc[w] = "ack"
    /\ Release(w)
    /\ UNCHANGED <<whvars, now, app, jobs, logs, deliveries, nextDeliveryId, intake, reply,
                   emailq, whq, runs, smtpAttempts, smtpAccepted, everTerminal,
                   skips, redeliveries>>

\* --------------------------------------------------------- webhook worker
\* WEBHOOK_MAX_RETRIES = 3
WEBHOOK_MAX_RETRIES == 3

\* The committed row of webhook_deliveries with this id
Committed(id) == \E d \in deliveries : d.id = id

Row(id) == CHOOSE d \in deliveries : d.id = id

\* The gates without the check of lines 55-57
WhGate_NoDeliveredGate(id) ==
    IF ~Committed(id) THEN "absent" ELSE "go"

\* Lines 47-57 of deliver_webhook_task: what the execution does
\*   "absent"    the select returned no row
\*   "delivered" the delivery is delivered already
\*   "go"        the POST is made
WhGate(id) ==
    IF ~Committed(id) THEN "absent"
    ELSE IF Row(id).status = "delivered" THEN "delivered"
    ELSE "go"

\* The POST goes to the application's current URL
WhTarget_Live(d, a) == a.webhook_url

\* client.post(delivery.webhook_url, ...): the URL stored on the delivery
WhTarget(d, a) == d.webhook_url

\* The key the application had at the start
WhApiKey_Initial(a) == {"K1"}

\* Lines 60-77: the X-API-Key header, read from the Application row by
\* this execution; NULL when the application has no key (no header)
WhApiKey(a) == a.webhook_api_key

\* The broker hands the message of delivery id to a free worker and the
\* task runs lines 46-86: it loads the delivery, returns when there is no
\* row or the delivery is delivered (the message is acknowledged), and
\* otherwise reads the application's key and sends the POST.  With `again`
\* the broker will deliver the same message once more.
\* The subscriber's record of requests: the one before and the new one p
LastTwo(s, p) == IF s = << >> THEN <<p>> ELSE <<s[Len(s)], p>>

WhStart(x, id, again) ==
    /\ Free(x)
    /\ \A v \in Workers : v < x => ~Free(v)
    /\ id \in whq
    /\ IF again
       THEN /\ redeliveries < MaxWebhookRedeliveries
            /\ redeliveries' = redeliveries + 1
            /\ UNCHANGED whq
       ELSE /\ whq' = whq \ {id}
            /\ UNCHANGED redeliveries
    /\ IF WhGate(id) = "go"
       THEN /\ whpc' = [whpc EXCEPT ![x] = "posted"]
            /\ whtask' = [whtask EXCEPT ![x] = id]
            /\ whsess' = [whsess EXCEPT ![x] = {Row(id)}]
            /\ posts' = LastTwo(posts, [delivery |-> id,
                                        url |-> WhTarget(Row(id), app),
                                        key |-> WhApiKey(app)])
            /\ moved' = (moved \/ app.webhook_url # Row(id).webhook_url)
            /\ UNCHANGED whskipped
       ELSE /\ whskipped' = IF WhGate(id) = "delivered"
                            THEN whskipped \cup {id} ELSE whskipped
            /\ UNCHANGED <<whpc, whtask, whsess, posts, moved>>
    /\ UNCHANGED <<now, app, jobs, logs, deliveries, nextDeliveryId, intake, reply,
                   emailq, pc, task, sess, lockedBy, runs, smtpAttempts,
                   smtpAccepted, everTerminal, skips>>

\* How the POST ends: a 2xx response, another response, httpx's
\* TimeoutException, another RequestError, or an exception of another class
WhResponses == {"2xx", "non2xx", "timeout", "connect_error", "unexpected"}

\* backoff = 30 * (2 ** delivery.retry_count) seconds
WebhookBackoff(n) == 30 * (2 ^ n)

\* Lines 88-161: the delivery object when the task ends, for response r at
\* time t.  The WebhookDeliveryError raised at line 112 is handled by the
\* clause of line 126; the ones raised at lines 118 and 124, inside except
\* clauses, leave the task
WhOutcome(d, r, t) ==
    CASE r = "2xx" ->
           [d EXCEPT !.last_response_code = {200},
                     !.status = "delivered", !.delivered_at = {t}]
      [] r = "non2xx" /\ d.retry_count + 1 >= WEBHOOK_MAX_RETRIES ->
           [d EXCEPT !.last_response_code = {500},
                     !.retry_count = @ + 1, !.status = "failed"]
      [] r = "non2xx" /\ d.retry_count + 1 < WEBHOOK_MAX_RETRIES ->
           [d EXCEPT !.last_response_code = {500},
                     !.retry_count = @ + 1,
                     !.next_retry_at = {t + WebhookBackoff(d.retry_count + 1)}]
      [] r = "timeout" -> [d EXCEPT !.last_error = {"Timeout"}]
      [] r = "connect_error" -> [d EXCEPT !.last_error = {"Connection error"}]
      [] r = "unexpected" ->
           [d EXCEPT !.last_error = {"Unexpected"}, !.status = "failed"]

\* The UPDATE of a commit: the columns the session changed
WhWrite(row, old, new) ==
    [f \in DOMAIN row |-> IF new[f] # old[f] THEN new[f] ELSE row[f]]

\* The commit also clears webhook_requested of the delivery's job
WhFlush_TouchesJob(db, old, new) ==
    [jobs |-> [db.jobs EXCEPT ![old.email_job_id].webhook_requested = FALSE],
     deliveries |-> db.deliveries]

\* db.commit() of deliver_webhook_task: the delivery is the only object the
\* session changed
WhFlush(db, old, new) ==
    LET row == CHOOSE d \in db.deliveries : d.id = old.id
    IN  [db EXCEPT !.deliveries = (@ \ {row}) \cup {WhWrite(row, old, new)}]

\* The response arrives (or the request fails); the task commits what it
\* recorded and ends.  No clause publishes the task again: the decorator
\* has no autoretry_for and the task never calls self.retry, so a raised
\* WebhookDeliveryError fails the task and its message is acknowledged
WhResponse(x, r) ==
    /\ whpc[x] = "posted"
    /\ \E old \in whsess[x] :
         LET after == WhFlush([jobs |-> jobs, deliveries |-> deliveries],
                              old, WhOutcome(old, r, now))
         IN  /\ jobs' = after.jobs
             /\ deliveries' = after.deliveries
    /\ whpc' = [whpc EXCEPT ![x] = "idle"]
    /\ whtask' = [whtask EXCEPT ![x] = 0]
    /\ whsess' = [whsess EXCEPT ![x] = NULL]
    /\ UNCHANGED <<now, app, logs, nextDeliveryId, intake, reply, emailq, whq, pc,
                   task, sess, lockedBy, runs, smtpAttempts, smtpAccepted,
                   everTerminal, skips, redeliveries, posts, moved,
                   whskipped>>

\* The worker process is lost after the POST: nothing was committed, the
\* un-acked message goes back to the queue
WhCrash(x) ==
    /\ whpc[x] = "posted"
    /\ redeliveries < MaxWebhookRedeliveries
    /\ redeliveries' = redeliveries + 1
    /\ whq' = whq \cup {whtask[x]}
    /\ whpc' = [whpc EXCEPT ![x] = "idle"]
    /\ whtask' = [whtask EXCEPT ![x] = 0]
    /\ whsess' = [whsess EXCEPT ![x] = NULL]
    /\ UNCHANGED <<now, app, jobs, logs, deliveries, nextDeliveryId, intake, reply,
                   emailq, pc, task, sess, lockedBy, runs, smtpAttempts,
                   smtpAccepted, everTerminal, skips, posts, moved,
                   whskipped>>

\* ---------------------------------------------------------- administration
\* Values are used once: a new URL or key is one the application did not
\* have before, and a removed key is not set again
AppUrls == {NULL, {"U1"}, {"U2"}}

\* The settings are read by the dispatcher and at the start of
\* deliver_webhook_task: a change is followed when one of the two can read
\* it next (a change at another moment reads the same there)
AppObserved == (\E w \in Workers : pc[w] = "finalize") \/ whq # {}

AppKeys == {NULL, {"K1"}, {"K2"}}

\* PATCH /applications/{id}: db_app.webhook_url = app_update.webhook_url
\* (the new URL, or None when the request names none).  Whether the
\* application has a URL is read by the dispatcher only: the removal is
\* followed when a dispatcher can read it next
UpdateApplication(u) ==
    /\ AppObserved
    /\ u = NULL => \E w \in Workers : pc[w] = "finalize"
    /\ app.webhook_url = {"U1"}
    /\ u # app.webhook_url
    /\ app' = [app EXCEPT !.webhook_url = u]
    /\ UNCHANGED <<whvars, now, jobs, logs, deliveries, nextDeliveryId,
                   intake, reply, emailq, whq, pc, task, sess, lockedBy, runs,
                   smtpAttempts, smtpAccepted, everTerminal, skips,
                   redeliveries>>

\* Application.webhook_api_key is replaced or removed
RotateKey(k) ==
    /\ AppObserved
    /\ app.webhook_api_key # NULL
    /\ k \notin {app.webhook_api_key, {"K1"}}
    /\ app' = [app EXCEPT !.webhook_api_key = k]
    /\ UNCHANGED <<whvars, now, jobs, logs, deliveries, nextDeliveryId,
                   intake, reply, emailq, whq, pc, task, sess, lockedBy, runs,
                   smtpAttempts, smtpAccepted, everTerminal, skips,
                   redeliveries>>

\* ------------------------------------------------------ failures and time
\* The worker process is lost anywhere in the task: the session's
\* transaction is rolled back and the un-acked message goes back to the
\* queue (task_acks_late, task_reject_on_worker_lost)
Crash(w) ==
    /\ pc[w] # "idle"
    /\ redeliveries < MaxRedeliveries
    /\ redeliveries' = redeliveries + 1
    /\ emailq' = [emailq EXCEPT ![task[w]] = @ + 1]
    /\ Release(w)
    /\ UNCHANGED <<whvars, now, app, jobs, logs, deliveries, nextDeliveryId, intake, reply,
                   whq, runs, smtpAttempts, smtpAccepted, everTerminal, skips>>

\* Something waits on the clock: a running task on the pool's time limit,
\* a job in processing on the stale gate.  Elsewhere the code compares no
\* times, and a later start of the same steps differs by a shift of every
\* timestamp only
ClockObserved ==
    \/ \E w \in Workers : ~Free(w)
    \/ \E j \in JobIds : jobs[j].status = "processing"

\* TaskTimeLimit seconds pass.  The pool has killed the process of every
\* task that was running (task_time_limit=120): its session is gone, its
\* message is acknowledged and not run again
Tick ==
    /\ now < MaxTime * Unit
    /\ ClockObserved
    /\ now' = now + Unit
    /\ pc' = [w \in Workers |-> "idle"]
    /\ task' = [w \in Workers |-> NoTask]
    /\ sess' = [w \in Workers |-> NoSess]
    /\ lockedBy' = [j \in JobIds |-> NULL]
    /\ whpc' = [w \in Workers |-> "idle"]
    /\ whtask' = [w \in Workers |-> 0]
    /\ whsess' = [w \in Workers |-> NULL]
    /\ UNCHANGED <<app, jobs, logs, deliveries, nextDeliveryId, intake, reply,
                   emailq, whq, runs, smtpAttempts, smtpAccepted,
                   everTerminal, skips, redeliveries, posts, moved,
                   whskipped>>

\* ---------------------------------------------------------- specification
IntakeStep ==
    \E j \in JobIds :
        \/ intake[j] = "new" /\ \E req \in Requests : IntakeReject(j, req)
        \/ intake[j] = "new" /\ \E req \in Requests : IntakeFlush(j, req)
        \/ IntakeEnqueue(j)
        \/ IntakeEnqueueFail(j)
        \/ IntakeCommit(j)

WorkerStep(w) ==
    \/ \E t \in Tasks : StartTask(w, t, FALSE)
    \/ MarkProcessing(w)
    \/ pc[w] = "smtp" /\ \E o \in {Classify(e) : e \in SmtpEvents} : SmtpSend(w, o)
    \/ CommitRetry(w)
    \/ RetryPublish(w)
    \/ \E e \in BOOLEAN : Dispatch(w, e)
    \/ FinalCommit(w)
    \/ Ack(w)

\* A delivery the broker will repeat
DuplicateStep(w) == \E t \in Tasks : StartTask(w, t, TRUE)

Next ==
    \/ IntakeStep
    \/ \E w \in Workers : WorkerStep(w)
    \/ \E w \in Workers : DuplicateStep(w)
    \/ \E w \in Workers : Crash(w)
    \/ \E w \in Workers : DispatchRaise(w)
    \/ \E w \in Workers : \E t \in Tasks : \E again \in BOOLEAN : StaleGateRaise(w, t, again)
    \/ Tick

Spec == Init /\ [][Next]_vars

WebhookStep(x) ==
    \/ \E id \in whq : WhStart(x, id, FALSE)
    \/ \E r \in WhResponses : WhResponse(x, r)

\* A webhook message the broker will repeat, a webhook worker lost
WebhookFault(x) ==
    \/ \E id \in whq : WhStart(x, id, TRUE)
    \/ WhCrash(x)

AdminStep ==
    \/ \E u \in AppUrls : UpdateApplication(u)
    \/ \E k \in AppKeys : RotateKey(k)

\* The whole pipeline, from intake to the subscriber: no email worker is
\* lost and no email message repeated; webhook messages may be repeated,
\* webhook workers lost, and the application's settings changed
PipelineNext ==
    \/ IntakeStep
    \/ \E w \in Workers : WorkerStep(w)
    \/ \E w \in Workers : WebhookStep(w)
    \/ \E w \in Workers : WebhookFault(w)
    \/ AdminStep

PipelineSpec == Init /\ [][PipelineNext]_vars

\* The pipeline with nothing going wrong on the broker's or the
\* administrator's side: intake, email workers and webhook workers only,
\* each of them scheduled fairly (a pool process takes the next message of
\* its queue and runs its task to the end)
DeliveryNext ==
    \/ IntakeStep
    \/ \E w \in Workers : WorkerStep(w)
    \/ \E w \in Workers : WebhookStep(w)

DeliverySpec ==
    /\ Init
    /\ [][DeliveryNext]_vars
    /\ WF_vars(IntakeStep)
    /\ \A w \in Workers : WF_vars(WorkerStep(w))
    /\ \A w \in Workers : WF_vars(WebhookStep(w))

\* No worker is lost, no message is delivered twice, no task overruns, the
\* dispatcher's queries do not fail: intake and workers only, each of them
\* scheduled fairly
NoLossNext ==
    \/ IntakeStep
    \/ \E w \in Workers : WorkerStep(w)

NoLossSpec ==
    /\ Init
    /\ [][NoLossNext]_vars
    /\ WF_vars(IntakeStep)
    /\ \A w \in Workers : WF_vars(WorkerStep(w))

\* Workers may be lost and messages repeated (no fairness: they need not
\* happen); intake, workers, the pool's time limit and the clock go on
FairSpec ==
    /\ Init
    /\ [][Next]_vars
    /\ WF_vars(IntakeStep)
    /\ \A w \in Workers : WF_vars(WorkerStep(w))
    /\ WF_vars(Tick)

\* ------------------------------------------------------------------ claims
\* What an early return must leave alone: the database, the queues of
\* webhook work, the relay, and the worker's own position
Untouched ==
    UNCHANGED <<jobs, logs, deliveries, nextDeliveryId, whq, smtpAttempts,
                smtpAccepted, pc, sess, lockedBy>>

\* The part of send_email_task between taking the row lock and the last
\* commit of the execution
Section == {"mark", "smtp", "retry_commit", "finalize", "commit"}

InSection(v, j) == task[v].job = j /\ pc[v] \in Section

C2_SentJobSkipped ==
    [][\A w \in Workers, t \in Tasks, again \in BOOLEAN :
          (jobs[t.job].sent_at # NULL /\ StartTask(w, t, again)) => Untouched]_vars

C2_Witness ==
    \E j \in JobIds : "sent" \in skips[j] /\ smtpAccepted[j] = 1

\* C3: once the committed status of a job is sent or failed, no step
\* changes it.
C3_TerminalMonotonic ==
    [][\A j \in JobIds :
          (jobs[j].exists /\ jobs[j].status \in Terminal)
              => jobs'[j].status = jobs[j].status]_vars

\* C4: every committed job has retry_count <= max_retries.
C4_RetryCountBounded ==
    \A j \in JobIds : jobs[j].retry_count <= JobMaxRetries

\* C5: at most max_retries + 1 SMTP connections are opened for a job
\* before it is terminal.
C5_AttemptsBounded ==
    \A j \in JobIds : ~everTerminal[j] => smtpAttempts[j] <= JobMaxRetries + 1

C7_RowVisibleToWorker ==
    [][\A w \in Workers, t \in Tasks, again \in BOOLEAN :
          StartTask(w, t, again) => jobs[t.job].exists]_vars

\* C8: without worker losses and under fair scheduling, every request
\* answered with 202 leads to a job in a terminal status.
C8_AcceptedReachesTerminal ==
    \A j \in JobIds :
        (intake[j] = "accepted") ~> (jobs[j].status \in Terminal)

\* The message of a job committed as processing is back in the queue and no
\* worker runs it: its worker was lost before committing an outcome
LostInProcessing(j) ==
    /\ jobs[j].status = "processing"
    /\ \A w \in Workers : task[w].job # j
    /\ \E t \in Tasks : t.job = j /\ emailq[t] > 0

\* C9: a job whose worker was lost after committing status=processing is
\* processed again after the redelivery and reaches a terminal status.
C9_LostJobRecovers ==
    \A j \in JobIds :
        LostInProcessing(j) ~> (jobs[j].status \in Terminal)

\* C10: a row of webhook_deliveries appears only together with the job's
\* terminal status: email.sent with status sent, email.failed with status
\* failed, never for a job in queued, processing or retry_pending.
C10_WebhookAfterTerminal ==
    [][\A d \in deliveries' \ deliveries :
          jobs'[d.email_job_id].status =
              (IF d.event_type = "email.sent" THEN "sent" ELSE "failed")]_vars

C10_Witness ==
    \E d1, d2 \in deliveries :
        /\ d1.event_type = "email.sent"
        /\ d2.event_type = "email.failed"


\* A step of the retry branch of send_email_task (lines 171-194)
RetryStep(w) ==
    \/ SmtpSend(w, "temporary") /\ task[w].retries < TaskMaxRetries
    \/ CommitRetry(w)
    \/ RetryPublish(w)

\* C11: no step of the retry branch creates a WebhookDelivery or enqueues
\* a webhook task, and a webhook task is enqueued only by an execution
\* that holds a terminal status for a job that is not in retry_pending.
C11_NoWebhookInRetryLoop ==
    /\ [][\A w \in Workers :
            RetryStep(w) => /\ UNCHANGED <<deliveries, whq, nextDeliveryId>>
                            /\ sess'[w].delivery = NULL]_vars
    /\ [][(~(whq' \subseteq whq) \/ nextDeliveryId' # nextDeliveryId) =>
            \E w \in Workers :
                /\ pc[w] = "finalize"
                /\ sess[w].final_status # NULL
                /\ sess[w].job.status \in Terminal
                /\ jobs[task[w].job].status # "retry_pending"]_vars

C11_Witness ==
    \E d \in deliveries :
        /\ d.event_type = "email.failed"
        /\ jobs[d.email_job_id].retry_count = JobMaxRetries
        /\ jobs[d.email_job_id].error_category = {"temporary"}


\* A step in which a webhook worker sends its POST
Posting == \E x \in Workers : whpc[x] # "posted" /\ whpc'[x] = "posted"

\* C12: the webhook_url of a delivery row never changes after the row was
\* created, and every POST sent for a delivery goes to the URL stored on its
\* row, whatever the application's URL is at that time.
C12_UrlSnapshot ==
    /\ [][\A d \in deliveries, e \in deliveries' :
            e.id = d.id => e.webhook_url = d.webhook_url]_vars
    /\ [][Posting =>
            \E d \in deliveries :
                /\ d.id = posts'[Len(posts')].delivery
                /\ posts'[Len(posts')].url = d.webhook_url]_vars

C12_Witness ==
    /\ moved
    /\ \E i \in 1..Len(posts) : posts[i].url = {"U1"}
    /\ app.webhook_url = {"U2"}

\* C13: the X-API-Key header of every POST is the key the Application row
\* holds when the request is made, and there is no header when it holds
\* none.
C13_KeyAtAttempt ==
    [][Posting =>
          posts'[Len(posts')].key = app.webhook_api_key]_vars

C13_Witness ==
    \E i, k \in 1..Len(posts) :
        /\ i < k
        /\ posts[i].delivery = posts[k].delivery
        /\ posts[i].key = {"K1"}
        /\ posts[k].key = {"K2"}


\* The committed deliveries of job j for event ev
DeliveriesOf(j, ev) ==
    {d \in deliveries : d.email_job_id = j /\ d.event_type = ev}

\* What the application's subscription asks for event ev: one delivery or
\* none
Expected(ev) == IF WebhookConfigured(app, ev) THEN 1 ELSE 0

\* A message of job j is queued or held by a worker that has not reached
\* the end of the task
Pending(j) ==
    \/ \E t \in Tasks : t.job = j /\ emailq[t] > 0
    \/ \E w \in Workers : task[w].job = j /\ pc[w] # "ack"

\* The execution of worker w ended the try block with error category c
EndsWith(w, c) == pc[w] \in {"finalize", "commit"} /\ sess[w].job.error_category = {c}

\* C14: a PermanentFailure of the sender sets status failed and category
\* permanent, leaves retry_count alone and goes to the final commit with no
\* retry; the commit writes that status together with exactly one
\* email.failed delivery for a subscribed application (none otherwise);
\* afterwards no message of the job is left and no attempt follows.
C14_PermanentFailure ==
    /\ [][\A w \in Workers :
            SmtpSend(w, "permanent") =>
                /\ pc'[w] = "finalize"
                /\ sess'[w].final_status = {"failed"}
                /\ sess'[w].job.status = "failed"
                /\ sess'[w].job.error_category = {"permanent"}
                /\ sess'[w].job.retry_count = jobs[task[w].job].retry_count
                /\ emailq' = emailq]_vars
    /\ [][\A w \in Workers :
            FinalCommit(w) /\ EndsWith(w, "permanent") =>
                LET j == task[w].job
                IN  /\ jobs'[j].status = "failed"
                    /\ jobs'[j].error_category = {"permanent"}
                    /\ jobs'[j].retry_count = jobs[j].retry_count
                    /\ \A d \in deliveries' \ deliveries :
                           d.email_job_id = j /\ d.event_type = "email.failed"]_vars
    /\ [](\A j \in JobIds :
            jobs[j].error_category = {"permanent"} =>
                /\ jobs[j].status = "failed"
                /\ jobs[j].retry_count = smtpAttempts[j] - 1
                /\ ~Pending(j)
                /\ Cardinality(DeliveriesOf(j, "email.failed")) = Expected("email.failed")
                /\ DeliveriesOf(j, "email.sent") = {})
    /\ \A j \in JobIds :
           (\E w \in Workers : task[w].job = j /\ EndsWith(w, "permanent"))
               ~> (jobs[j].error_category = {"permanent"})

\* The relay answered 550 to the first attempt of a subscriber's job
C14_Witness ==
    \E j \in JobIds :
        /\ jobs[j].status = "failed"
        /\ jobs[j].error_category = {"permanent"}
        /\ jobs[j].retry_count = 0
        /\ smtpAttempts[j] = 1
        /\ Cardinality(DeliveriesOf(j, "email.failed")) = 1


\* C15: a temporary failure is retried while the task has retries left and
\* ends the job at the fourth attempt: a job that failed with category
\* temporary has retry_count 3 after 1 + 3 attempts, none of them accepted,
\* with one email.failed delivery for a subscribed application, and a job
\* waiting for a retry reaches a terminal status.
C15_RetryExhaustion ==
    /\ [][\A w \in Workers :
            SmtpSend(w, "temporary") =>
                IF task[w].retries < TaskMaxRetries
                THEN pc'[w] = "retry_commit" /\ sess'[w].job.status = "retry_pending"
                ELSE /\ pc'[w] = "finalize"
                     /\ sess'[w].final_status = {"failed"}
                     /\ sess'[w].job.status = "failed"
                     /\ sess'[w].job.error_category = {"temporary"}
                     /\ sess'[w].job.retry_count = jobs[task[w].job].retry_count
                     /\ emailq' = emailq]_vars
    /\ [](\A j \in JobIds :
            jobs[j].error_category = {"temporary"} =>
                /\ jobs[j].status = "failed"
                /\ jobs[j].retry_count = JobMaxRetries
                /\ smtpAttempts[j] = 1 + TaskMaxRetries
                /\ smtpAccepted[j] = 0
                /\ ~Pending(j)
                /\ Cardinality(DeliveriesOf(j, "email.failed")) = Expected("email.failed")
                /\ DeliveriesOf(j, "email.sent") = {})
    /\ \A j \in JobIds :
           (jobs[j].status = "retry_pending") ~> (jobs[j].status \in Terminal)

\* The relay answered 421 four times to a subscriber's job
C15_Witness ==
    \E j \in JobIds :
        /\ jobs[j].status = "failed"
        /\ jobs[j].error_category = {"temporary"}
        /\ jobs[j].retry_count = 3
        /\ smtpAttempts[j] = 4
        /\ Cardinality(DeliveriesOf(j, "email.failed")) = 1


\* The execution of worker w holds an accepted message of job j and has
\* not committed it
SentUncommitted(w, j) ==
    /\ task[w].job = j
    /\ pc[w] \in {"finalize", "commit"}
    /\ sess[w].final_status = {"sent"}

\* C16: an attempt the relay accepts after k temporary failures sets
\* status sent and sent_at and leaves retry_count at k; the job is then
\* committed as sent with one email.sent delivery for a subscribed
\* application, and no delivery of the job exists while the job is not
\* terminal.
C16_TransientThenSuccess ==
    /\ [][\A w \in Workers :
            SmtpSend(w, "ok") =>
                /\ pc'[w] = "finalize"
                /\ sess'[w].final_status = {"sent"}
                /\ sess'[w].job.status = "sent"
                /\ sess'[w].job.sent_at = {now}
                /\ sess'[w].job.retry_count = jobs[task[w].job].retry_count
                /\ sess'[w].job.retry_count = task[w].retries
                /\ emailq' = emailq]_vars
    /\ [](\A j \in JobIds :
            /\ jobs[j].status \notin Terminal =>
                   {d \in deliveries : d.email_job_id = j} = {}
            /\ jobs[j].status = "sent" =>
                   /\ jobs[j].sent_at # NULL
                   /\ jobs[j].retry_count = smtpAttempts[j] - 1
                   /\ jobs[j].retry_count <= TaskMaxRetries
                   /\ smtpAccepted[j] = 1
                   /\ ~Pending(j)
                   /\ Cardinality(DeliveriesOf(j, "email.sent")) = Expected("email.sent")
                   /\ DeliveriesOf(j, "email.failed") = {})
    /\ \A j \in JobIds :
           (\E w \in Workers : SentUncommitted(w, j)) ~> (jobs[j].status = "sent")

\* The relay answered 421 to attempts 1 and 2 and accepted the third
C16_Witness ==
    \E j \in JobIds :
        /\ jobs[j].status = "sent"
        /\ jobs[j].sent_at # NULL
        /\ jobs[j].retry_count = 2
        /\ smtpAttempts[j] = 3
        /\ Cardinality(DeliveriesOf(j, "email.sent")) = 1


\* An exception no except clause of the sender or the task names
Unexpected == {e \in SmtpEvents : e.kind \in {"unexpected_in_smtp", "unexpected_outside"}}

\* C17: an unexpected exception during the delivery of a job ends the
\* execution with status failed and category system, on the terminal path
\* (no retry is committed or published).
C17_UnexpectedIsSystem ==
    [][\A w \in Workers : \A e \in Unexpected :
          SmtpSend(w, Classify(e)) =>
              /\ pc'[w] = "finalize"
              /\ sess'[w].final_status = {"failed"}
              /\ sess'[w].job.status = "failed"
              /\ sess'[w].job.error_category = {"system"}]_vars


\* C18: an execution whose message the relay accepted commits status sent
\* and sent_at although the dispatcher failed.
C18_DispatcherNeverBlocks ==
    [][\A w \in Workers :
          DispatchRaise(w) /\ sess[w].final_status = {"sent"} =>
              /\ jobs'[task[w].job].status = "sent"
              /\ jobs'[task[w].job].sent_at # NULL]_vars


\* C19: when deliver_webhook_task.delay raises, the dispatcher returns with
\* the delivery marked failed with last_error, nothing queued, and the job
\* object as after a successful enqueue; the final commit then writes that
\* delivery and the job's final status (sent with sent_at, or failed with
\* its category).
C19_EnqueueFailure ==
    /\ [][\A w \in Workers :
            Dispatch(w, FALSE) =>
                /\ pc'[w] = "commit"
                /\ whq' = whq
                /\ sess'[w].job = [sess[w].job EXCEPT !.webhook_requested = TRUE]
                /\ sess'[w].final_status = sess[w].final_status
                /\ \A d \in sess'[w].delivery :
                       d.status = "failed" /\ d.last_error # NULL]_vars
    /\ [][\A w \in Workers :
            FinalCommit(w) /\ sess[w].delivery # NULL =>
                LET j == task[w].job
                    s == sess[w].job
                IN  /\ sess[w].delivery \subseteq deliveries'
                    /\ \A d \in sess[w].delivery :
                           d.id \notin whq => d.status = "failed" /\ d.last_error # NULL
                    /\ jobs'[j].status = s.status
                    /\ {s.status} = sess[w].final_status
                    /\ jobs'[j].webhook_requested
                    /\ s.status = "sent" => jobs'[j].sent_at = s.sent_at /\ s.sent_at # NULL
                    /\ s.status = "failed" =>
                           jobs'[j].error_category = s.error_category]_vars

\* An accepted message whose webhook could not be queued
C19_Witness ==
    \E d \in deliveries :
        /\ d.status = "failed"
        /\ d.last_error # NULL
        /\ d.id \notin whq
        /\ d.event_type = "email.sent"
        /\ jobs[d.email_job_id].status = "sent"
        /\ jobs[d.email_job_id].sent_at # NULL


\* C20: no step of deliver_webhook_task (its start, its commit after a 2xx
\* or another response, a timeout, a connection error, an unexpected
\* exception, the third failed response, the loss of its worker) changes a
\* column of an EmailJob row.
C20_WebhookLeavesJobs ==
    [][(\E x \in Workers : WebhookStep(x) \/ WebhookFault(x)) => jobs' = jobs]_vars

\* A delivery exhausted by three responses that were not 2xx, its job
\* still sent
C20_Witness ==
    \E d \in deliveries :
        /\ d.status = "failed"
        /\ d.retry_count = WEBHOOK_MAX_RETRIES
        /\ d.last_response_code # NULL
        /\ jobs[d.email_job_id].status = "sent"
        /\ jobs[d.email_job_id].webhook_requested


\* Ids flush() can hand out: one delivery per execution that passes the
\* gates
DeliveryIds == 1..MaxRuns

\* C21: every committed delivery in status pending reaches delivered or
\* failed.
C21_PendingReachesEnd ==
    \A id \in DeliveryIds :
        (Committed(id) /\ Row(id).status = "pending")
            ~> (Committed(id) /\ Row(id).status \in {"delivered", "failed"})


\* The ways a POST fails
FailedResponses == {"non2xx", "timeout", "connect_error"}

\* C22: a delivery is created with retry_count 0, every completed failed
\* attempt adds one to retry_count, and no POST is sent for a delivery whose
\* retry_count has reached WEBHOOK_MAX_RETRIES: at most three attempts.
C22_AttemptsBounded ==
    /\ [][\A d \in deliveries' :
            (\A e \in deliveries : e.id # d.id) => d.retry_count = 0]_vars
    /\ [][\A x \in Workers : \A r \in FailedResponses :
            WhResponse(x, r) =>
                \A old \in whsess[x] : \E d \in deliveries' :
                    d.id = old.id /\ d.retry_count = old.retry_count + 1]_vars
    /\ [][Posting =>
            \A d \in deliveries :
                d.id = posts'[Len(posts')].delivery =>
                    d.retry_count < WEBHOOK_MAX_RETRIES]_vars


\* C23: a job has at most one row in webhook_deliveries, whatever the
\* executions and redeliveries.
C23_OneDeliveryPerJob ==
    \A j \in JobIds : Cardinality({d \in deliveries : d.email_job_id = j}) <= 1


\* The request fails validation: unknown API key, missing or inactive
\* service, no active service configuration, missing SMTP configuration,
\* missing template, or a rendering error
FailsValidation(req) ==
    \/ req.api_key = "unknown"
    \/ req.service \in {"inactive", "missing"}
    \/ req.config \in {"inactive", "missing"}
    \/ ~req.smtp
    \/ ~req.template
    \/ ~req.renders

\* No message of job j is queued or held by a worker
NoTaskOf(j) ==
    /\ \A t \in Tasks : t.job = j => emailq[t] = 0
    /\ \A w \in Workers : task[w].job # j

\* C24: the intake step of a request that fails validation answers with a
\* 4xx, inserts no row and publishes no task; a rejected request has no
\* EmailJob row and no task afterwards.
C24_ValidationRejects ==
    /\ [][\A j \in JobIds : (intake[j] = "new" /\ intake'[j] # "new") =>
            \A req \in Requests :
                (FailsValidation(req) /\ (IntakeReject(j, req) \/ IntakeFlush(j, req))) =>
                    /\ intake'[j] = "rejected"
                    /\ reply'[j] \in 400..499
                    /\ jobs' = jobs
                    /\ emailq' = emailq]_vars
    /\ [](\A j \in JobIds :
            intake[j] = "rejected" =>
                /\ reply[j] \in 400..499
                /\ ~jobs[j].exists
                /\ NoTaskOf(j))

\* A request for a template that does not exist was answered with 404
C24_Witness ==
    \E j \in JobIds :
        /\ intake[j] = "rejected"
        /\ reply[j] = 404
        /\ ~jobs[j].exists
        /\ NoTaskOf(j)


\* C25: when send_email_task.delay raises at intake the job is committed
\* as failed with an error_message, the request is answered with 500 and
\* no task of the job exists; no other step takes a committed job from
\* queued to failed.
C25_EnqueueFailureAtIntake ==
    /\ [][\A j \in JobIds :
            IntakeEnqueueFail(j) =>
                /\ jobs'[j].exists
                /\ jobs'[j].status = "failed"
                /\ jobs'[j].error_message # NULL
                /\ reply'[j] = 500
                /\ emailq' = emailq]_vars
    /\ [][\A j \in JobIds :
            (jobs[j].status = "queued" /\ jobs'[j].status = "failed") =>
                IntakeEnqueueFail(j)]_vars
    /\ [](\A j \in JobIds :
            intake[j] = "error" =>
                /\ jobs[j].exists
                /\ jobs[j].status = "failed"
                /\ jobs[j].error_message # NULL
                /\ reply[j] = 500
                /\ NoTaskOf(j))

C25_Witness ==
    \E j \in JobIds :
        /\ intake[j] = "error"
        /\ reply[j] = 500
        /\ jobs[j].status = "failed"
        /\ jobs[j].error_message = {"Failed to enqueue"}
        /\ NoTaskOf(j)


\* The transitions of the committed status: queued -> processing ->
\* {sent, failed, retry_pending}, retry_pending -> processing, and
\* queued -> failed
Transitions ==
    { <<"queued", "processing">>, <<"processing", "sent">>,
      <<"processing", "failed">>, <<"processing", "retry_pending">>,
      <<"retry_pending", "processing">>, <<"queued", "failed">> }

\* C26: every change of a job's committed status is one of the six
\* transitions, queued -> failed is the intake's enqueue failure, and the
\* commit of status=processing is made for a job in queued or
\* retry_pending only (never failed -> processing or processing ->
\* processing).
C26_StatusTransitions ==
    /\ [][\A j \in JobIds :
            jobs'[j].status # jobs[j].status =>
                /\ <<jobs[j].status, jobs'[j].status>> \in Transitions
                /\ jobs'[j].status = "failed" /\ jobs[j].status = "queued" =>
                       IntakeEnqueueFail(j)]_vars
    /\ [][\A w \in Workers :
            MarkProcessing(w) =>
                jobs[task[w].job].status \in {"queued", "retry_pending"}]_vars


\* C27: a committed job has sent_at set exactly when its status is sent.
C27_SentAtIffSent ==
    \A j \in JobIds :
        jobs[j].exists => (jobs[j].sent_at # NULL <=> jobs[j].status = "sent")

\* A sent job whose message came a second time, and a job that failed
C27_Witness ==
    \E j \in JobIds :
        /\ jobs[j].status = "sent"
        /\ jobs[j].sent_at # NULL
        /\ "sent" \in skips[j]


\* C28: a committed delivery has delivered_at set exactly when its status
\* is delivered.
C28_DeliveredAtIffDelivered ==
    \A d \in deliveries : d.delivered_at # NULL <=> d.status = "delivered"


\* The outcomes the classification table names
TableEvents ==
    {e \in SmtpEvents : e.kind \in {"recipients_refused", "auth_failed", "reply",
                                    "timeout", "connection", "socket"}}

\* The table: refused recipients, failed authentication and the reply codes
\* 550-554 are permanent, every other reply code and the network errors
\* are temporary
Table(e) ==
    IF e.kind \in {"recipients_refused", "auth_failed"} THEN "permanent"
    ELSE IF e.kind = "reply" /\ e.code \in {550, 551, 552, 553, 554} THEN "permanent"
    ELSE "temporary"

\* The class of failure the task recorded on the job object s
ClassSeen(s) ==
    IF s.status = "sent" THEN "ok"
    ELSE IF s.status = "retry_pending" THEN "temporary"
    ELSE IF s.error_category = {"permanent"} THEN "permanent"
    ELSE IF s.error_category = {"temporary"} THEN "temporary"
    ELSE "system"

\* C29: for every outcome of the table the sender raises the failure of
\* the table's class, which the task records on the job.
C29_ClassifierTable ==
    /\ [][\A w \in Workers : \A e \in TableEvents :
            SmtpSend(w, Classify(e)) => ClassSeen(sess'[w].job) = Table(e)]_vars
    /\ [](\A e \in TableEvents : Classify(e) = Table(e))

\* A reply the task took as temporary on the first attempt
C29_Witness ==
    \E w \in Workers :
        /\ pc[w] = "retry_commit"
        /\ task[w].retries = 0
        /\ ClassSeen(sess[w].job) = "temporary"


\* Worker w commits a change of the row of job j
WritesJob(w, j) ==
    /\ task[w].job = j
    /\ MarkProcessing(w) \/ CommitRetry(w) \/ FinalCommit(w)
    /\ jobs'[j] # jobs[j]

\* C30 as claimed: every write of an email worker to a job's row is made
\* while the worker holds the row lock of its SELECT ... FOR UPDATE SKIP
\* LOCKED.
C30_WritesUnderRowLock ==
    [][\A w \in Workers, j \in JobIds :
          WritesJob(w, j) => lockedBy[j] = {w}]_vars

\* C30 as amended: the commit of status=processing is made under the row
\* lock of the select and releases it; the later writes (retry_pending and
\* retry_count, the final status, webhook_requested) are made without it,
\* by the only worker that is between its lock step and its last commit
\* for the job, while no other worker holds the row lock.
C30_WritesSerialized ==
    /\ [][\A w \in Workers :
            MarkProcessing(w) =>
                /\ lockedBy[task[w].job] = {w}
                /\ lockedBy'[task[w].job] = NULL]_vars
    /\ [][\A w \in Workers, j \in JobIds :
            WritesJob(w, j) =>
                /\ InSection(w, j)
                /\ \A v \in Workers \ {w} : ~InSection(v, j)
                /\ lockedBy[j] \in {NULL, {w}}]_vars

\* A retry was committed by a worker that no longer held the row lock
C30_Witness ==
    \E w \in Workers :
        /\ pc[w] = "retry"
        /\ lockedBy[task[w].job] = NULL
        /\ jobs[task[w].job].status = "retry_pending"
        /\ jobs[task[w].job].retry_count > 0



\* An execution of send_email_task runs the select and the gates for
\* message t
GateStep(w, t, again) == StartTask(w, t, again) \/ StaleGateRaise(w, t, again)

\* The execution finds the row unlocked, not sent, in processing
FoundProcessing(j) ==
    /\ jobs[j].exists
    /\ lockedBy[j] = NULL
    /\ jobs[j].sent_at = NULL
    /\ jobs[j].status = "processing"
    /\ jobs[j].processing_started_at # NULL

\* C31: an execution that finds its job in processing for less than 2
\* minutes ends without invoking SMTP and without changing the job; one
\* that finds it in processing for 2 minutes or more takes the job over
\* (it holds the row and goes on to commit status=processing).
C31_StaleGate ==
    [][\A w \in Workers, t \in Tasks, again \in BOOLEAN :
          (FoundProcessing(t.job) /\ GateStep(w, t, again)) =>
              IF \E p \in jobs[t.job].processing_started_at : now - p < StaleLimit
              THEN Untouched
              ELSE /\ pc'[w] = "mark"
                   /\ task'[w] = t
                   /\ lockedBy'[t.job] = {w}]_vars



\* C32: a delivery is owned by one webhook worker at a time: no two
\* executions of deliver_webhook_task are at the same time between the POST
\* and the commit of the same delivery.
C32_DeliveryOwned ==
    \A x, y \in Workers :
        (x # y /\ whpc[x] = "posted" /\ whpc[y] = "posted") => whtask[x] # whtask[y]



\* C33: an execution of deliver_webhook_task that finds its delivery
\* committed as delivered sends no HTTP request and changes no row: the
\* message is taken from the queue and nothing else happens.
C33_DeliveredSkipped ==
    [][\A id \in whq :
          (Committed(id) /\ Row(id).status = "delivered") =>
              \A x \in Workers, again \in BOOLEAN :
                  WhStart(x, id, again) =>
                      /\ UNCHANGED <<deliveries, jobs, logs, posts, moved>>
                      /\ UNCHANGED <<whpc, whtask, whsess>>]_vars

\* A repeated message of a delivered delivery was taken and left the row
\* delivered
C33_Witness ==
    \E id \in whskipped :
        /\ Committed(id)
        /\ Row(id).status = "delivered"
        /\ Row(id).delivered_at # NULL
        /\ id \notin whq



\* C34: a POST that ends in a timeout or a connection error is handled like
\* a response that is not 2xx: the commit records last_error and adds one
\* to retry_count, and either sets next_retry_at (retries left) or sets
\* status failed (retries exhausted).
C34_TimeoutLikeNon2xx ==
    [][\A x \in Workers : \A r \in {"timeout", "connect_error"} :
          WhResponse(x, r) =>
              \A old \in whsess[x] : \E d \in deliveries' :
                  /\ d.id = old.id
                  /\ d.last_error # NULL
                  /\ d.retry_count = old.retry_count + 1
                  /\ IF old.retry_count + 1 >= WEBHOOK_MAX_RETRIES
                     THEN d.status = "failed"
                     ELSE d.next_retry_at # NULL]_vars



\* The application does not ask for event ev: webhooks are switched off,
\* there is no URL, or the event is not in webhook_events
Unsubscribed(a, ev) ==
    \/ ~a.webhook_enabled
    \/ a.webhook_url = NULL
    \/ ev \notin a.webhook_events

\* Worker w leaves the dispatcher's call in this step
Dispatched(w) == pc[w] = "finalize" /\ pc'[w] \in {"commit", "ack"}

\* C35 as claimed: for an application that does not ask for the event the
\* dispatcher creates no delivery, enqueues nothing and the job is
\* committed with webhook_requested false; otherwise it creates exactly one
\* delivery, pending, sets webhook_requested, and the final commit writes
\* both.
C35_DispatchConditions ==
    [][\A w \in Workers : \A f \in sess[w].final_status :
          LET j == task[w].job
              ev == EventType(f)
              new == deliveries' \ deliveries
          IN  /\ (Dispatched(w) /\ Unsubscribed(app, ev)) =>
                    /\ new = {}
                    /\ sess'[w].delivery = NULL
                    /\ whq' = whq
                    /\ nextDeliveryId' = nextDeliveryId
                    /\ ~jobs'[j].webhook_requested
              /\ (Dispatched(w) /\ ~Unsubscribed(app, ev)) =>
                    /\ \E d \in sess'[w].delivery :
                           /\ sess'[w].delivery = {d}
                           /\ d.email_job_id = j
                           /\ d.event_type = ev
                           /\ d.status = "pending"
                    /\ sess'[w].job.webhook_requested
              /\ (FinalCommit(w) /\ pc[w] = "commit") =>
                    /\ new = sess[w].delivery
                    /\ Cardinality(new) = 1
                    /\ \A d \in new : d.status = "pending"
                    /\ jobs'[j].webhook_requested]_vars

\* C35 as amended: the delivery the dispatcher creates is pending when its
\* task was enqueued, and failed with last_error when the enqueue raised.
C35_DispatchCreates ==
    [][\A w \in Workers : \A f \in sess[w].final_status :
          LET j == task[w].job
              ev == EventType(f)
              new == deliveries' \ deliveries
          IN  /\ (Dispatched(w) /\ Unsubscribed(app, ev)) =>
                    /\ new = {}
                    /\ sess'[w].delivery = NULL
                    /\ whq' = whq
                    /\ nextDeliveryId' = nextDeliveryId
                    /\ ~jobs'[j].webhook_requested
              /\ (Dispatched(w) /\ ~Unsubscribed(app, ev)) =>
                    /\ \E d \in sess'[w].delivery :
                           /\ sess'[w].delivery = {d}
                           /\ d.email_job_id = j
                           /\ d.event_type = ev
                           /\ IF d.id \in whq' \ whq
                              THEN d.status = "pending"
                              ELSE /\ d.status = "failed"
                                   /\ d.last_error # NULL
                                   /\ whq' = whq
                    /\ sess'[w].job.webhook_requested
              /\ (FinalCommit(w) /\ pc[w] = "commit") =>
                    /\ new = sess[w].delivery
                    /\ Cardinality(new) = 1
                    /\ \A d \in new :
                           \/ d.status = "pending"
                           \/ d.status = "failed" /\ d.last_error # NULL
                    /\ jobs'[j].webhook_requested]_vars

\* A job of an application whose URL was removed reached its terminal
\* status: no delivery, no webhook task, webhook_requested false
C35_Witness ==
    \E j \in JobIds :
        /\ jobs[j].status \in Terminal
        /\ app.webhook_enabled
        /\ app.webhook_url = NULL
        /\ EventType(jobs[j].status) \in app.webhook_events
        /\ ~jobs[j].webhook_requested
        /\ deliveries = {}
        /\ whq = {}



\* C36: the commit that ends an SMTP attempt (sent, permanent failure,
\* temporary failure to be retried, temporary failure with the retries
\* exhausted) appends exactly one EmailLog row of the job, with
\* response_code 200 for a sent outcome and 500 otherwise.
C36_LogPerAttempt ==
    [][\A w \in Workers :
          (CommitRetry(w) \/ FinalCommit(w)) =>
              /\ Len(logs') = Len(logs) + 1
              /\ logs'[Len(logs')].job_id = task[w].job
              /\ logs'[Len(logs')].response_code =
                     (IF sess[w].job.status = "sent" THEN 200 ELSE 500)]_vars



\* retry_backoff_max=300
RetryBackoffMax == 300

\* The delay the claim gives for the retry after the n-th failed attempt
ClaimedBackoff(n) == 30 * (2 ^ (n - 1))

\* C37: after the n-th failed attempt of a delivery (n = 1, 2), with
\* retries remaining, the commit records next_retry_at = now + 30 * 2^(n-1)
\* seconds (30 s, then 60 s), at most 300 s ahead.
C37_WebhookBackoff ==
    [][\A x \in Workers :
          WhResponse(x, "non2xx") =>
              \A old \in whsess[x] :
                  LET n == old.retry_count + 1
                  IN  n < WEBHOOK_MAX_RETRIES =>
                          \E d \in deliveries' :
                              /\ d.id = old.id
                              /\ d.next_retry_at = {now + ClaimedBackoff(n)}
                              /\ ClaimedBackoff(n) <= RetryBackoffMax]_vars



\* A committed delivery no execution has attempted yet
Untried(d) ==
    /\ d.status = "pending"
    /\ d.retry_count = 0
    /\ d.last_error = NULL
    /\ d.last_response_code = NULL

\* C38: the row named by a webhook message is committed before a webhook
\* worker can take the message: no execution of deliver_webhook_task finds
\* its row missing, and every committed delivery that was not attempted
\* yet has its message in the queue or in a worker's hands.
C38_RowVisibleToWebhook ==
    /\ [][\A x \in Workers, id \in whq, again \in BOOLEAN :
            WhStart(x, id, again) => Committed(id)]_vars
    /\ [](\A d \in deliveries :
            Untried(d) => d.id \in whq \/ \E x \in Workers : whtask[x] = d.id)



\* The final statuses of a delivery
WhTerminal == {"delivered", "failed"}

\* C39: an execution of deliver_webhook_task that starts when its delivery
\* is committed as delivered or failed sends no POST and takes no hold of
\* the row, and a delivery committed as failed never becomes delivered.
C39_WebhookTerminalMonotonic ==
    /\ [][\A id \in whq :
            (Committed(id) /\ Row(id).status \in WhTerminal) =>
                \A x \in Workers, again \in BOOLEAN :
                    WhStart(x, id, again) =>
                        /\ posts' = posts
                        /\ whpc' = whpc
                        /\ deliveries' = deliveries]_vars
    /\ [][\A d \in deliveries, e \in deliveries' :
            (e.id = d.id /\ d.status = "failed") => e.status # "delivered"]_vars

=============================================================================
